---- MODULE Spec2Model ----
(***************************************************************************)
(* Filter -> aggregate -> chart pipeline of the CSV dashboard.             *)
(*                                                                         *)
(* A table is a record [cols, rows]: cols is the ordered column list and   *)
(* rows a sequence of functions column -> cell.  A cell carries its type:  *)
(* a string, a number n/d, a timestamp (ticks since 2020-01-01 00:00) or   *)
(* a missing value (NaN / NaT).                                            *)
(***************************************************************************)
EXTENDS Integers, Sequences, FiniteSets, TLC

VARIABLES
    data,              \* the DataFrame read from the data store
    global_config,     \* values of the global filter widgets
    chart_filters,     \* per chart: values of the chart's filter widgets
    chart_configs,     \* per chart: values of the chart's config widgets
    chart_count,       \* the chart-count store
    persisted,         \* widget values the browser keeps for persistence=True
    datasets,          \* the datasets store: entries [name, content] in insertion order
    selected_dataset,  \* value of the dataset selector
    upload_info,       \* the message under the upload area
    upload,            \* [contents, filename] of the upload area
    triggered,         \* the widget whose event fired last
    title_options,     \* [error, values]: the values offered by "Choose titles"
    phase,             \* "pending" until _update_charts has run, then "done"
    outcome,           \* "none", "ok", or the exception _update_charts raised
    data_after,        \* the object `data` as _update_charts leaves it
    filtered,          \* the globally filtered table (source of the preview)
    filtered_after,    \* the object `filtered` after the chart loop
    chart_filtered,    \* per chart: the table after the chart's own filter
    chart_filtered_after, \* per chart: that object after aggregating and drawing
    chart_data,        \* per chart: the table build_chart_data returned
    figures,           \* per chart: the figure specification
    preview_data,      \* rows shown in the preview table
    preview_columns    \* columns shown in the preview table

vars == <<data, global_config, chart_filters, chart_configs, chart_count, persisted,
          datasets, selected_dataset, upload_info, upload, triggered, title_options,
          phase, outcome,
          data_after, filtered, filtered_after, chart_filtered,
          chart_filtered_after, chart_data, figures, preview_data, preview_columns>>

inputs == <<data, global_config, chart_filters, chart_configs, chart_count, persisted>>

\* the data workspace section of the page and the title picker
page == <<datasets, selected_dataset, upload_info, upload, triggered, title_options>>

-----------------------------------------------------------------------------
(* Bounds of the model. *)

\* rows of a table handed to the filter
MaxRows == 2
\* rows of a table handed to the aggregator
MaxAggRows == 3
-----------------------------------------------------------------------------
(* Cells. *)

\* Python's None, and the value of a multi-select nothing was ever chosen in
None == "(absent)"
NoSelection == {None}

Str(s) == [k |-> "str", s |-> s, n |-> 0, d |-> 1]
Num(n) == [k |-> "num", s |-> "", n |-> n, d |-> 1]
Ts(t)  == [k |-> "ts",  s |-> "", n |-> t, d |-> 1]
NA     == [k |-> "na",  s |-> "", n |-> 0, d |-> 1]

IsNA(c) == c.k = "na"

RECURSIVE Gcd(_, _)
Gcd(a, b) == IF b = 0 THEN a ELSE Gcd(b, a % b)

\* the number a/b (b > 0) in lowest terms
Frac(a, b) == LET g == Gcd(a, b) IN [k |-> "num", s |-> "", n |-> a \div g, d |-> b \div g]

Digit == <<"0", "1", "2", "3", "4", "5", "6", "7", "8", "9">>

RECURSIVE NatStr(_)
NatStr(n) == IF n < 10 THEN Digit[n + 1] ELSE NatStr(n \div 10) \o Digit[(n % 10) + 1]

\* calendar days and times of day the model's clock can show
DateStrings == <<"2020-01-01", "2020-01-02", "2020-01-03">>
TimeStrings == <<"00:00:00", "12:00:00">>

\* resolution of the clock: ticks per calendar day
TicksPerDay == Len(TimeStrings)

ModelTimes == 0 .. (Len(DateStrings) * TicksPerDay - 1)

DateOf(t) == t \div TicksPerDay

\* str(Timestamp): "YYYY-MM-DD HH:MM:SS"
TsStr(t) ==
    IF t \in ModelTimes
    THEN DateStrings[DateOf(t) + 1] \o " " \o TimeStrings[(t % TicksPerDay) + 1]
    ELSE "1970-01-01 00:00:00"

\* ticks of 1970-01-01 00:00, the origin of numbers read as timestamps
Epoch == 0 - 18262 * TicksPerDay

\* the timestamp strings of the model's clock: both the full form and, for
\* midnight, the bare date
TimeOfString ==
    [s \in {TsStr(t) : t \in ModelTimes} \cup {DateStrings[i] : i \in 1..Len(DateStrings)} |->
        IF \E t \in ModelTimes : TsStr(t) = s
        THEN CHOOSE t \in ModelTimes : TsStr(t) = s
        ELSE ((CHOOSE i \in 1..Len(DateStrings) : DateStrings[i] = s) - 1) * TicksPerDay]

\* pd.to_datetime of one string: its timestamp, or NaT when it does not parse
ParseDatetime(s) == IF s \in DOMAIN TimeOfString THEN Ts(TimeOfString[s]) ELSE NA

\* pd.to_datetime(..., errors="coerce") of one cell
CoerceCell(c) ==
    CASE c.k = "ts"  -> c
      [] c.k = "str" -> ParseDatetime(c.s)
      [] c.k = "num" -> Ts(Epoch)
      [] OTHER       -> NA

-----------------------------------------------------------------------------
(* Tables. *)

Column(table, col) == [i \in 1..Len(table.rows) |-> table.rows[i][col]]

HasColumn(table, col) == \E i \in 1..Len(table.cols) : table.cols[i] = col

\* the rows of table at the positions where keep holds, in their order
RECURSIVE SelectRows(_, _, _)
SelectRows(rows, keep, i) ==
    IF i > Len(rows) THEN <<>>
    ELSE (IF keep[i] THEN <<rows[i]>> ELSE <<>>) \o SelectRows(rows, keep, i + 1)

Restrict(table, keep) == [cols |-> table.cols, rows |-> SelectRows(table.rows, keep, 1)]

\* DataFrame.assign(col = values): the same table with one column replaced
AssignColumn(table, col, values) ==
    [cols |-> table.cols,
     rows |-> [i \in 1..Len(table.rows) |-> [table.rows[i] EXCEPT ![col] = values[i]]]]

IsDatetimeDtype(series) == \A i \in DOMAIN series : series[i].k \in {"ts", "na"}

\* faulty variant: errors="raise": a value that does not parse raises
CoerceDatetimeRaises(series) ==
    IF IsDatetimeDtype(series) THEN [error |-> "none", values |-> series]
    ELSE IF \E i \in DOMAIN series : series[i].k = "str" /\ IsNA(CoerceCell(series[i]))
    THEN [error |-> "ParserError", values |-> series]
    ELSE [error |-> "none", values |-> [i \in DOMAIN series |-> CoerceCell(series[i])]]

\* _coerce_datetime: a datetime column as it is; any other is parsed cell by
\* cell with errors="coerce", so a value that does not parse becomes NaT and
\* nothing is raised
CoerceDatetime(series) ==
    IF IsDatetimeDtype(series) THEN [error |-> "none", values |-> series]
    ELSE [error |-> "none", values |-> [i \in DOMAIN series |-> CoerceCell(series[i])]]

-----------------------------------------------------------------------------
(* FilterEngine: DataFilter.apply(table, FilterConfig). *)

\* faulty variant: no conversion: only a string has a text to compare
StrOfUnconverted(c) == IF c.k = "str" THEN c.s ELSE "nan"

\* the string a cell is compared as
StrOf(c) ==
    CASE c.k = "str" -> c.s
      [] c.k = "num" -> IF c.d = 1 THEN NatStr(c.n) ELSE NatStr(c.n) \o "/" \o NatStr(c.d)
      [] c.k = "ts"  -> TsStr(c.n)
      [] OTHER       -> "nan"

FilterConfig(title_column, title_values, time_column, start_date, end_date) ==
    [title_column |-> title_column, title_values |-> title_values,
     time_column |-> time_column, start_date |-> start_date, end_date |-> end_date]

\* categorical filtering is on: a column and at least one value are chosen
TitleActive(config) ==
    /\ config.title_column # None
    /\ config.title_values # NoSelection
    /\ config.title_values # {}

\* temporal filtering is on: a column and both ends of the range are chosen
TimeActive(config) ==
    /\ config.time_column # None
    /\ config.start_date # None
    /\ config.end_date # None

\* rows whose value, as a string, is one of the chosen values
TitleMask(table, config) ==
    [i \in 1..Len(table.rows) |-> StrOf(table.rows[i][config.title_column]) \in config.title_values]

\* rows whose parsed timestamp lies in [start, end], both ends included; a
\* row whose time is NaT is in no range
InRange(coerced, start, end) ==
    [i \in DOMAIN coerced |->
        /\ ~IsNA(coerced[i])
        /\ ~IsNA(start) /\ ~IsNA(end)
        /\ start.n <= coerced[i].n
        /\ coerced[i].n <= end.n]

TimeMask(config, coerced) ==
    InRange(coerced, ParseDatetime(config.start_date), ParseDatetime(config.end_date))

\* the categorical step of apply
ApplyTitle(table, config) ==
    IF TitleActive(config) THEN Restrict(table, TitleMask(table, config)) ELSE table

\* faulty variant: the coerced column is written back into the table passed in
ApplyRangeInPlace(table, config, afterTitle, coerced) ==
    IF coerced.error # "none"
    THEN [error |-> coerced.error, arg |-> table, result |-> table]
    ELSE [error |-> "none",
          arg |-> AssignColumn(table, config.time_column,
                               CoerceDatetime(Column(table, config.time_column)).values),
          result |-> Restrict(afterTitle, TimeMask(config, coerced.values))]

\* the temporal step of apply, the column already coerced
ApplyRange(table, config, afterTitle, coerced) ==
    IF coerced.error # "none"
    THEN [error |-> coerced.error, arg |-> table, result |-> table]
    ELSE [error |-> "none", arg |-> table,
          result |-> Restrict(afterTitle, TimeMask(config, coerced.values))]

ApplyTime(table, config, afterTitle) ==
    IF TimeActive(config)
    THEN ApplyRange(table, config, afterTitle,
                    CoerceDatetime(Column(afterTitle, config.time_column)))
    ELSE [error |-> "none", arg |-> table, result |-> afterTitle]

\* apply: [error, arg, result] where arg is the table passed in as the call
\* leaves it and result the table returned
Apply(table, config) == ApplyTime(table, config, ApplyTitle(table, config))

-----------------------------------------------------------------------------
(* Aggregator: build_chart_data(filtered_data, config). *)

NoDimension == "(none)"
RawRows == "None (raw rows)"

\* faulty variant: the reductions of Min and Max taken for each other
AGGREGATIONSMinMaxSwapped ==
    [label \in {RawRows, "Count", "Sum", "Mean", "Min", "Max"} |->
        CASE label = "Count" -> "count"
          [] label = "Sum"   -> "sum"
          [] label = "Mean"  -> "mean"
          [] label = "Min"   -> "max"
          [] label = "Max"   -> "min"
          [] OTHER           -> None]

\* AGGREGATIONS: label -> pandas reduction
AGGREGATIONS ==
    [label \in {RawRows, "Count", "Sum", "Mean", "Min", "Max"} |->
        CASE label = "Count" -> "count"
          [] label = "Sum"   -> "sum"
          [] label = "Mean"  -> "mean"
          [] label = "Min"   -> "min"
          [] label = "Max"   -> "max"
          [] OTHER           -> None]

ChartConfig(chart_type, x_axis, y_axis, aggregation, color_dimension, line_symbol, line_dash, bar_pattern, bar_facet, layout_height) ==
    [chart_type |-> chart_type, x_axis |-> x_axis, y_axis |-> y_axis,
     aggregation |-> aggregation, color_dimension |-> color_dimension,
     line_symbol |-> line_symbol, line_dash |-> line_dash,
     bar_pattern |-> bar_pattern, bar_facet |-> bar_facet,
     layout_height |-> layout_height]

Optional(dimension) == IF dimension # NoDimension THEN <<dimension>> ELSE <<>>

\* faulty variant: the bar settings are appended whatever the chart type
GroupersAnyChartType(config) ==
    <<config.x_axis>>
    \o Optional(config.color_dimension)
    \o (IF config.chart_type = "Line"
        THEN Optional(config.line_symbol) \o Optional(config.line_dash)
        ELSE <<>>)
    \o Optional(config.bar_pattern) \o Optional(config.bar_facet)

\* the grouping keys, in the order build_chart_data appends them
Groupers(config) ==
    <<config.x_axis>>
    \o Optional(config.color_dimension)
    \o (IF config.chart_type = "Line"
        THEN Optional(config.line_symbol) \o Optional(config.line_dash)
        ELSE <<>>)
    \o (IF config.chart_type = "Bar"
        THEN Optional(config.bar_pattern) \o Optional(config.bar_facet)
        ELSE <<>>)

\* strings of the model in Python's str order
Collation ==
    <<"1", "10", "2", "2020-01-01", "2020-01-01 00:00:00", "2020-01-02", "A", "B", "n/a", "x", "y">>

StrRank(s) == IF \E i \in 1..Len(Collation) : Collation[i] = s
              THEN CHOOSE i \in 1..Len(Collation) : Collation[i] = s
              ELSE Len(Collation) + 1

KindRank(c) == CASE c.k = "num" -> 1 [] c.k = "ts" -> 2 [] c.k = "str" -> 3 [] OTHER -> 4

\* the order groupby(sort=True, dropna=False) puts the values of one key in:
\* ascending, the missing value after every other
CellLess(a, b) ==
    IF a.k # b.k THEN KindRank(a) < KindRank(b)
    ELSE CASE a.k = "num" -> a.n * b.d < b.n * a.d
           [] a.k = "ts"  -> a.n < b.n
           [] a.k = "str" -> StrRank(a.s) < StrRank(b.s)
           [] OTHER       -> FALSE

\* lexicographic order of key tuples (sequences of cells of one length)
RECURSIVE KeyLess(_, _)
KeyLess(a, b) ==
    IF a = <<>> THEN FALSE
    ELSE IF Head(a) = Head(b) THEN KeyLess(Tail(a), Tail(b))
    ELSE CellLess(Head(a), Head(b))

KeyOf(row, groupers) == [j \in 1..Len(groupers) |-> row[groupers[j]]]

RECURSIVE SortKeys(_)
SortKeys(keys) ==
    IF keys = {} THEN <<>>
    ELSE LET least == CHOOSE k \in keys : \A other \in keys \ {k} : KeyLess(k, other)
         IN  <<least>> \o SortKeys(keys \ {least})

\* the non-missing y values of the rows of one group, in row order
RECURSIVE GroupValues(_, _, _, _, _)
GroupValues(rows, groupers, key, y_axis, i) ==
    IF i > Len(rows) THEN <<>>
    ELSE (IF KeyOf(rows[i], groupers) = key /\ ~IsNA(rows[i][y_axis])
          THEN <<rows[i][y_axis]>> ELSE <<>>)
         \o GroupValues(rows, groupers, key, y_axis, i + 1)

RECURSIVE SumOf(_)
SumOf(values) == IF values = <<>> THEN 0 ELSE Head(values).n + SumOf(Tail(values))

RECURSIVE LeastOf(_)
LeastOf(values) ==
    IF Len(values) = 1 THEN Head(values)
    ELSE LET rest == LeastOf(Tail(values))
         IN  IF CellLess(rest, Head(values)) THEN rest ELSE Head(values)

RECURSIVE GreatestOf(_)
GreatestOf(values) ==
    IF Len(values) = 1 THEN Head(values)
    ELSE LET rest == GreatestOf(Tail(values))
         IN  IF CellLess(Head(values), rest) THEN rest ELSE Head(values)

\* SeriesGroupBy.agg(agg_func) on the values of one group; missing values are
\* skipped, and a group with none left gives 0 for count and sum, NaN otherwise
Reduce(agg_func, values) ==
    CASE agg_func = "count" -> Num(Len(values))
      [] agg_func = "sum"   -> Num(SumOf(values))
      [] agg_func = "mean"  -> IF values = <<>> THEN NA ELSE Frac(SumOf(values), Len(values))
      [] agg_func = "min"   -> IF values = <<>> THEN NA ELSE LeastOf(values)
      [] OTHER              -> IF values = <<>> THEN NA ELSE GreatestOf(values)

\* the aggregated table: one row per key of `keys`, in that order
GroupRows(table, groupers, y_axis, agg_func, keys) ==
    [cols |-> groupers \o <<y_axis>>,
     rows |-> [g \in 1..Len(keys) |->
                [c \in {groupers[j] : j \in 1..Len(groupers)} \cup {y_axis} |->
                    IF c = y_axis
                    THEN Reduce(agg_func, GroupValues(table.rows, groupers, keys[g], y_axis, 1))
                    ELSE keys[g][CHOOSE j \in 1..Len(groupers) : groupers[j] = c]]]]

\* the keys of the rows from row i on, each once, in order of first appearance
RECURSIVE FirstSeen(_, _, _, _)
FirstSeen(rows, groupers, i, seen) ==
    IF i > Len(rows) THEN seen
    ELSE FirstSeen(rows, groupers, i + 1,
                   IF \E j \in 1..Len(seen) : seen[j] = KeyOf(rows[i], groupers)
                   THEN seen ELSE Append(seen, KeyOf(rows[i], groupers)))

\* faulty variant: sort=False: the groups in order of first appearance
GroupByUnsorted(table, groupers, y_axis, agg_func) ==
    GroupRows(table, groupers, y_axis, agg_func, FirstSeen(table.rows, groupers, 1, <<>>))

\* faulty variant: dropna=True: a key with a missing value gets no group
GroupByDropNa(table, groupers, y_axis, agg_func) ==
    GroupRows(table, groupers, y_axis, agg_func,
              SortKeys({key \in {KeyOf(table.rows[i], groupers) : i \in 1..Len(table.rows)} :
                           \A j \in 1..Len(key) : ~IsNA(key[j])}))

\* groupby(groupers, dropna=False, as_index=False)[y_axis].agg(agg_func):
\* one row per key tuple, keys ascending, columns groupers then y_axis.
\* The grouping columns are taken to be pairwise distinct and other than
\* y_axis; what pandas returns otherwise depends on its version.
GroupBy(table, groupers, y_axis, agg_func) ==
    GroupRows(table, groupers, y_axis, agg_func,
              SortKeys({KeyOf(table.rows[i], groupers) : i \in 1..Len(table.rows)}))

\* the grouped branch of build_chart_data
BuildGrouped(filtered_data, config, groupers) ==
    IF \E j \in 1..Len(groupers) : ~HasColumn(filtered_data, groupers[j])
    THEN [error |-> "KeyError", arg |-> filtered_data, result |-> filtered_data]
    ELSE IF ~HasColumn(filtered_data, config.y_axis)
    THEN [error |-> "KeyError", arg |-> filtered_data, result |-> filtered_data]
    ELSE [error |-> "none",
          arg |-> filtered_data,
          result |-> GroupBy(filtered_data, groupers, config.y_axis,
                             AGGREGATIONS[config.aggregation])]

\* faulty variant: no early return, raw rows are grouped like any other
BuildChartDataGroupsRawRows(filtered_data, config) ==
    IF config.aggregation \notin DOMAIN AGGREGATIONS
    THEN [error |-> "KeyError", arg |-> filtered_data, result |-> filtered_data]
    ELSE BuildGrouped(filtered_data, config, Groupers(config))

\* build_chart_data: [error, arg, result] where arg is filtered_data as the
\* call leaves it and result the table returned (a copy, or the groups)
BuildChartData(filtered_data, config) ==
    IF config.aggregation = RawRows
    THEN [error |-> "none", arg |-> filtered_data, result |-> filtered_data]
    ELSE IF config.aggregation \notin DOMAIN AGGREGATIONS
    THEN [error |-> "KeyError", arg |-> filtered_data, result |-> filtered_data]
    ELSE BuildGrouped(filtered_data, config, Groupers(config))

-----------------------------------------------------------------------------
(* ChartBuilder. *)

CHART_TYPES == <<"Line", "Bar", "Pie", "Heatmap">>

DefaultHeight == 480

\* the range of the height slider
MinHeight == 320
MaxHeight == 800

\* default_config(columns, numeric_columns)
DefaultConfig(columns, numeric_columns) ==
    ChartConfig("Line", columns[1], numeric_columns[1], RawRows,
                NoDimension, NoDimension, NoDimension, NoDimension, NoDimension,
                DefaultHeight)

\* to_config: the widget values, as they are, become the chart's config
ToConfig(w) ==
    ChartConfig(w.chart_type, w.x_axis, w.y_axis, w.aggregation, w.color_dimension,
                w.line_symbol, w.line_dash, w.bar_pattern, w.bar_facet, w.layout_height)

NoneIfUnset(dimension) == IF dimension = NoDimension THEN None ELSE dimension

Figure(kind, title, axes_visible, x, y, color, symbol, line_dash, pattern_shape, facet_col, barmode, z, histfunc, height, rows) ==
    [kind |-> kind, title |-> title, axes_visible |-> axes_visible, x |-> x, y |-> y,
     color |-> color, symbol |-> symbol, line_dash |-> line_dash,
     pattern_shape |-> pattern_shape, facet_col |-> facet_col, barmode |-> barmode,
     z |-> z, histfunc |-> histfunc, height |-> height, rows |-> rows]

\* the columns the figure of a chart type is drawn from
FigureColumns(config) ==
    <<config.x_axis, config.y_axis>>
    \o (IF config.chart_type \in {"Line", "Bar", "Pie"}
        THEN Optional(config.color_dimension) ELSE <<>>)
    \o (IF config.chart_type = "Line"
        THEN Optional(config.line_symbol) \o Optional(config.line_dash)
        ELSE <<>>)
    \o (IF config.chart_type = "Bar"
        THEN Optional(config.bar_pattern) \o Optional(config.bar_facet)
        ELSE <<>>)

\* plotly express refuses, with a ValueError, an argument that names no
\* column of the table it draws; the placeholder draws no column
FigureError(table, config) ==
    IF /\ table.rows # <<>>
       /\ \E j \in 1..Len(FigureColumns(config)) : ~HasColumn(table, FigureColumns(config)[j])
    THEN "ValueError"
    ELSE "none"

\* the figure of a chart type, drawn from the rows of table
DrawFigure(table, config) ==
    CASE config.chart_type = "Line" ->
            Figure("line", None, TRUE, config.x_axis, config.y_axis,
                   NoneIfUnset(config.color_dimension), NoneIfUnset(config.line_symbol),
                   NoneIfUnset(config.line_dash), None, None, None, None, None,
                   config.layout_height, table.rows)
      [] config.chart_type = "Bar" ->
            Figure("bar", None, TRUE, config.x_axis, config.y_axis,
                   NoneIfUnset(config.color_dimension), None, None,
                   NoneIfUnset(config.bar_pattern), NoneIfUnset(config.bar_facet),
                   IF config.color_dimension # NoDimension THEN "stack" ELSE "group",
                   None, None, config.layout_height, table.rows)
      [] config.chart_type = "Pie" ->
            Figure("pie", None, TRUE, config.x_axis, config.y_axis,
                   NoneIfUnset(config.color_dimension), None, None, None, None, None,
                   None, None, config.layout_height, table.rows)
      [] OTHER ->
            Figure("density_heatmap", None, TRUE, config.x_axis, config.y_axis,
                   None, None, None, None, None, None,
                   IF config.aggregation # RawRows THEN config.y_axis ELSE None,
                   IF config.aggregation \in DOMAIN AGGREGATIONS
                      /\ AGGREGATIONS[config.aggregation] # None
                   THEN AGGREGATIONS[config.aggregation] ELSE "count",
                   config.layout_height, table.rows)

\* faulty variant: an empty table is drawn like any other
BuildFigureDrawsEmpty(table, config) == DrawFigure(table, config)

\* build_figure(chart_data, config): the placeholder for an empty table,
\* else the figure of the chart type
BuildFigure(table, config) ==
    IF table.rows = <<>>
    THEN Figure("placeholder", "No data after filtering", FALSE, None, None, None, None,
                None, None, None, None, None, None, config.layout_height, <<>>)
    ELSE DrawFigure(table, config)

-----------------------------------------------------------------------------
(* ChartOrchestrator: the _update_charts callback. *)

NoData == [cols |-> <<>>, rows |-> <<>>]

PreviewRows == 50

FirstRows(rows, n) == SubSeq(rows, 1, IF Len(rows) < n THEN Len(rows) ELSE n)

\* FilterConfig of the global widgets; a multi-select never touched counts
\* as an empty selection (title_values or [])
GlobalFilterConfig(w) ==
    FilterConfig(w.title_column,
                 IF w.title_values = NoSelection THEN {} ELSE w.title_values,
                 w.time_column, w.start_date, w.end_date)

\* faulty variant: start and end date taken from each other's list
PerChartFilterConfigSwapped(lists, index) ==
    FilterConfig(
        IF index <= Len(lists.title_columns) THEN lists.title_columns[index] ELSE None,
        IF index <= Len(lists.title_values) THEN lists.title_values[index] ELSE {},
        IF index <= Len(lists.time_columns) THEN lists.time_columns[index] ELSE None,
        IF index <= Len(lists.end_dates) THEN lists.end_dates[index] ELSE None,
        IF index <= Len(lists.start_dates) THEN lists.start_dates[index] ELSE None)

\* FilterConfig of chart `index`: each widget list is read only where it has
\* an entry for the chart
PerChartFilterConfig(lists, index) ==
    FilterConfig(
        IF index <= Len(lists.title_columns) THEN lists.title_columns[index] ELSE None,
        IF index <= Len(lists.title_values) THEN lists.title_values[index] ELSE {},
        IF index <= Len(lists.time_columns) THEN lists.time_columns[index] ELSE None,
        IF index <= Len(lists.start_dates) THEN lists.start_dates[index] ELSE None,
        IF index <= Len(lists.end_dates) THEN lists.end_dates[index] ELSE None)

\* what one pass of the chart loop leaves: [error, filtered, chart_filtered,
\* chart_filtered_after, chart_data, figure]; filtered and
\* chart_filtered_after are the objects `filtered` and `chart_filtered` as
\* the pass leaves them
PassResult(applied, config, built) ==
    [error |-> IF applied.error # "none" THEN applied.error
               ELSE IF built.error # "none" THEN built.error
               ELSE FigureError(built.result, config),
     filtered |-> applied.arg,
     chart_filtered |-> applied.result,
     chart_filtered_after |-> built.arg,
     chart_data |-> built.result,
     figure |-> BuildFigure(built.result, config)]

PassBuild(applied, config) ==
    PassResult(applied, config, BuildChartData(applied.result, config))

\* one pass of the chart loop: filter `filtered` by the chart's own filter,
\* aggregate, draw
ChartPass(filtered_now, lists, widgets, index) ==
    PassBuild(Apply(filtered_now, PerChartFilterConfig(lists, index)),
              ToConfig(widgets[index]))

\* the chart loop from chart `index` on; it ends at the first pass that raises
RECURSIVE ChartLoop(_, _, _, _, _)
RECURSIVE LoopStep(_, _, _, _, _)

\* faulty variant: the chart's table is assigned to `filtered`, so each chart
\* filters what the chart before it left
LoopStepAccumulates(pass, lists, widgets, index, done) ==
    IF pass.error # "none"
    THEN [error |-> pass.error, filtered |-> pass.filtered, passes |-> done]
    ELSE ChartLoop(pass.chart_filtered, lists, widgets, index + 1, Append(done, pass))

LoopStep(pass, lists, widgets, index, done) ==
    IF pass.error # "none"
    THEN [error |-> pass.error, filtered |-> pass.filtered, passes |-> done]
    ELSE ChartLoop(pass.filtered, lists, widgets, index + 1, Append(done, pass))

ChartLoop(filtered_now, lists, widgets, index, done) ==
    IF index > Len(widgets)
    THEN [error |-> "none", filtered |-> filtered_now, passes |-> done]
    ELSE LoopStep(ChartPass(filtered_now, lists, widgets, index), lists, widgets, index, done)

RecomputeResult(applied, loop) ==
    [error |-> IF applied.error # "none" THEN applied.error ELSE loop.error,
     data_after |-> applied.arg,
     filtered |-> applied.result,
     filtered_after |-> loop.filtered,
     passes |-> loop.passes]

\* faulty variant: the charts filter the dataset, not the globally filtered table
RecomputeChartsFromData(applied, lists, widgets) ==
    RecomputeResult(applied, ChartLoop(applied.arg, lists, widgets, 1, <<>>))

RecomputeCharts(applied, lists, widgets) ==
    RecomputeResult(applied, ChartLoop(applied.result, lists, widgets, 1, <<>>))

\* _update_charts on its inputs: everything the callback computes
Recompute(table, global_widgets, lists, widgets) ==
    RecomputeCharts(Apply(table, GlobalFilterConfig(global_widgets)), lists, widgets)

-----------------------------------------------------------------------------
(* Inputs the model draws from. *)

Columns == <<"cat", "grp", "tag", "t", "val">>
NumericColumns == <<"val">>

Row(cat, grp, tag, t, val) ==
    [c \in {"cat", "grp", "tag", "t", "val"} |->
        CASE c = "cat" -> cat [] c = "grp" -> grp [] c = "tag" -> tag
          [] c = "t" -> t [] OTHER -> val]

RECURSIVE SeqsUpTo(_, _)
SeqsUpTo(S, n) ==
    IF n = 0 THEN {<<>>}
    ELSE SeqsUpTo(S, n - 1) \cup {Append(q, e) : q \in {r \in SeqsUpTo(S, n - 1) : Len(r) = n - 1}, e \in S}

TablesOf(rowSet, n) == {[cols |-> Columns, rows |-> rows] : rows \in SeqsUpTo(rowSet, n)}

\* rows for the filter: string, numeric and missing categories; parsed,
\* unparsed, unparseable and missing times
FilterRows ==
    { Row(Str("A"), Str("x"), Str("x"), Ts(0), Num(1)),
      Row(Str("1"), Str("x"), Str("x"), Ts(1), Num(1)),
      Row(Num(1),   Str("x"), Str("x"), Str("2020-01-02"), Num(1)),
      Row(NA,       Str("x"), Str("x"), Str("n/a"), Num(1)),
      Row(Str("A"), Str("x"), Str("x"), NA, Num(1)),
      Row(Str("B"), Str("x"), Str("x"), Ts(2), Num(1)) }

\* rows for the aggregator: repeated and missing keys, missing values
AggRows ==
    { Row(Str("A"), Str("x"), Str("x"), Ts(0), Num(10)),
      Row(Str("A"), Str("x"), Str("y"), Ts(2), Num(20)),
      Row(Str("B"), Str("x"), Str("x"), Ts(0), Num(5)),
      Row(NA,       Str("y"), Str("x"), Ts(0), Num(5)),
      Row(Str("A"), Str("y"), Str("x"), NA, NA) }

TitleInputs ==
    { <<None, {"A"}>>, <<"cat", NoSelection>>, <<"cat", {}>>,
      <<"cat", {"A"}>>, <<"cat", {"1"}>>, <<"cat", {"A", "1"}>> }

TimeInputs ==
    { <<None, None, None>>,
      <<None, "2020-01-01", "2020-01-02">>,
      <<"t", "2020-01-01", None>>,
      <<"t", "2020-01-01", "2020-01-01">>,
      <<"t", "2020-01-01", "2020-01-02">>,
      <<"t", "2020-01-01 12:00:00", "2020-01-02">>,
      <<"t", "2020-01-02", "2020-01-01">> }

FilterInputs ==
    {FilterConfig(a[1], a[2], b[1], b[2], b[3]) : a \in TitleInputs, b \in TimeInputs}

NoFilterWidgets == FilterConfig(None, NoSelection, None, None, None)

\* the five per-chart filter widget lists, one entry per filter in fs
FilterLists(fs) ==
    [title_columns |-> [i \in 1..Len(fs) |-> fs[i].title_column],
     title_values  |-> [i \in 1..Len(fs) |-> fs[i].title_values],
     time_columns  |-> [i \in 1..Len(fs) |-> fs[i].time_column],
     start_dates   |-> [i \in 1..Len(fs) |-> fs[i].start_date],
     end_dates     |-> [i \in 1..Len(fs) |-> fs[i].end_date]]

SecondaryInputs ==
    { <<NoDimension, NoDimension, NoDimension, NoDimension>>,
      <<"tag", "t", NoDimension, NoDimension>>,
      <<NoDimension, NoDimension, "t", "tag">>,
      <<NoDimension, "t", "t", NoDimension>>,
      <<"tag", "t", "t", "tag">> }

ConfigInputs ==
    { ChartConfig(type, "cat", "val", agg, color, sec[1], sec[2], sec[3], sec[4], DefaultHeight) :
        type \in {CHART_TYPES[i] : i \in 1..Len(CHART_TYPES)},
        agg \in DOMAIN AGGREGATIONS,
        color \in {NoDimension, "grp"},
        sec \in SecondaryInputs }

-----------------------------------------------------------------------------
(* The state machine. *)

\* a file name is the sequence of its characters; None and "" are both the
\* empty name, as the code tells neither from the other (`filename or ...`,
\* `if selected_dataset and ...`)
NoName == <<>>

\* "uploaded.csv"
UploadedCsv == <<"u", "p", "l", "o", "a", "d", "e", "d", ".", "c", "s", "v">>

\* contents of an upload: what the payload turns out to be and, for a CSV
\* that reads, the table read
Payload(kind, table) == [kind |-> kind, table |-> table]

\* DataFrame.to_json(date_format="iso", orient="split") and pd.read_json of it
ToJson(table) == [orient |-> "split", columns |-> table.cols, rows |-> table.rows]

ReadJson(json) == [cols |-> json.columns, rows |-> json.rows]

\* the store and the selection after the upload of `table` as the only
\* dataset, without a file name
StoreOf(table) ==
    IF table = NoData THEN <<>> ELSE <<[name |-> UploadedCsv, content |-> ToJson(table)]>>

SelectionOf(table) == IF table = NoData THEN NoName ELSE UploadedCsv

\* the page showing `table`: it is stored and selected; no title column is
\* chosen
Showing(table) ==
    /\ datasets = StoreOf(table)
    /\ selected_dataset = SelectionOf(table)
    /\ upload_info = ""
    /\ upload = IF table = NoData
                THEN [contents |-> Payload("none", NoData), filename |-> NoName]
                ELSE [contents |-> Payload("csv", table), filename |-> NoName]
    /\ triggered = IF table = NoData THEN "none" ELSE "upload"
    /\ title_options = [error |-> "none", values |-> <<>>]

NothingComputed ==
    /\ phase = "pending"
    /\ outcome = "none"
    /\ data_after = NoData
    /\ filtered = NoData
    /\ filtered_after = NoData
    /\ chart_filtered = <<>>
    /\ chart_filtered_after = <<>>
    /\ chart_data = <<>>
    /\ figures = <<>>
    /\ preview_data = <<>>
    /\ preview_columns = <<>>

\* a dataset is loaded, the filter widgets are set, two charts show the
\* default config; the first chart may have filter widgets of its own
InitApply ==
    /\ data \in TablesOf(FilterRows, MaxRows)
    /\ global_config \in FilterInputs
    /\ chart_filters \in {FilterLists(fs) : fs \in SeqsUpTo(FilterInputs, 1)}
    /\ chart_configs = [i \in 1..2 |-> DefaultConfig(Columns, NumericColumns)]
    /\ chart_count = 2
    /\ persisted = {}
    /\ Showing(data)
    /\ NothingComputed

\* a dataset is loaded, no filter is set, one chart is configured
InitAggregate ==
    /\ data \in TablesOf(AggRows, MaxAggRows)
    /\ global_config = NoFilterWidgets
    /\ chart_filters = FilterLists(<<>>)
    /\ chart_configs \in {<<c>> : c \in ConfigInputs}
    /\ chart_count = 1
    /\ persisted = {}
    /\ Showing(data)
    /\ NothingComputed

computed == <<data_after, filtered, filtered_after, chart_filtered, chart_filtered_after,
              chart_data>>

\* _update_charts.  Without a dataset: no figures and an empty preview.
\* Otherwise filter globally, then per chart filter, aggregate and draw; when
\* a step raises, the callback fails and Dash updates none of its outputs.
UpdateCharts ==
    /\ phase = "pending"
    /\ phase' = "done"
    /\ UNCHANGED <<inputs, page>>
    /\ IF data = NoData
       THEN /\ outcome' = "ok"
            /\ figures' = <<>>
            /\ preview_data' = <<>>
            /\ preview_columns' = <<>>
            /\ UNCHANGED computed
       ELSE \E r \in {Recompute(data, global_config, chart_filters, chart_configs)} :
            IF r.error # "none"
            THEN /\ outcome' = r.error
                 /\ UNCHANGED <<computed, figures, preview_data, preview_columns>>
            ELSE /\ outcome' = "ok"
                 /\ data_after' = r.data_after
                 /\ filtered' = r.filtered
                 /\ filtered_after' = r.filtered_after
                 /\ chart_filtered' = [i \in 1..Len(r.passes) |-> r.passes[i].chart_filtered]
                 /\ chart_filtered_after' =
                        [i \in 1..Len(r.passes) |-> r.passes[i].chart_filtered_after]
                 /\ chart_data' = [i \in 1..Len(r.passes) |-> r.passes[i].chart_data]
                 /\ figures' = [i \in 1..Len(r.passes) |-> r.passes[i].figure]
                 /\ preview_columns' = r.filtered.cols
                 /\ preview_data' = FirstRows(r.filtered.rows, PreviewRows)

NextApply == UpdateCharts

SpecApply == InitApply /\ [][NextApply]_vars

NextAggregate == UpdateCharts

SpecAggregate == InitAggregate /\ [][NextAggregate]_vars

-----------------------------------------------------------------------------
(* build_chart_data on its own: the call at the end of a chart's pass, on  *)
(* any widget values the callback can be handed.                           *)

RawSecondaryInputs ==
    { <<NoDimension, NoDimension, NoDimension, NoDimension>>,
      <<"gone", NoDimension, NoDimension, NoDimension>>,
      <<NoDimension, NoDimension, NoDimension, "gone">>,
      <<"tag", "t", "t", "tag">> }

\* widget values as they arrive: "gone" names a column the table lacks,
\* "Median" an aggregation AGGREGATIONS has no entry for
RawConfigInputs ==
    { ChartConfig(type, x, y, agg, color, sec[1], sec[2], sec[3], sec[4], DefaultHeight) :
        type \in {CHART_TYPES[i] : i \in 1..Len(CHART_TYPES)},
        x \in {"cat", "gone"},
        y \in {"val", "gone"},
        agg \in DOMAIN AGGREGATIONS \cup {"Median"},
        color \in {NoDimension, "grp", "gone"},
        sec \in RawSecondaryInputs }

\* the chart's pass has filtered (no filter is set) and is about to aggregate
InitBuild ==
    /\ data \in TablesOf(AggRows, MaxRows)
    /\ global_config = NoFilterWidgets
    /\ chart_filters = FilterLists(<<>>)
    /\ chart_configs \in {<<c>> : c \in RawConfigInputs}
    /\ chart_count = 1
    /\ persisted = {}
    /\ Showing(data)
    /\ phase = "pending"
    /\ outcome = "none"
    /\ data_after = data
    /\ filtered = data
    /\ filtered_after = data
    /\ chart_filtered = <<data>>
    /\ chart_filtered_after = <<data>>
    /\ chart_data = <<>>
    /\ figures = <<>>
    /\ preview_data = <<>>
    /\ preview_columns = <<>>

\* chart_data = build_chart_data(chart_filtered, chart_config.__dict__)
BuildChartDataCall ==
    /\ phase = "pending"
    /\ phase' = "done"
    /\ \E r \in {BuildChartData(chart_filtered[1], ToConfig(chart_configs[1]))} :
          /\ outcome' = IF r.error = "none" THEN "ok" ELSE r.error
          /\ chart_filtered_after' = <<r.arg>>
          /\ chart_data' = IF r.error = "none" THEN <<r.result>> ELSE <<>>
    /\ UNCHANGED <<inputs, page, data_after, filtered, filtered_after, chart_filtered,
                   figures, preview_data, preview_columns>>

NextBuild == BuildChartDataCall

SpecBuild == InitBuild /\ [][NextBuild]_vars

-----------------------------------------------------------------------------
(* The callback on filters that can leave no row.                          *)

\* global filters: none, one category, one day no row of AggRows falls on
GlobalFilterInputs ==
    { NoFilterWidgets,
      FilterConfig("cat", {"B"}, None, None, None),
      FilterConfig(None, NoSelection, "t", "2020-01-03", "2020-01-03") }

\* the chart's own filter: none, or another category
LocalFilterInputs == { <<>>, <<FilterConfig("cat", {"A"}, None, None, None)>> }

HeightInputs == {MinHeight, DefaultHeight}

\* a dataset is loaded, filters are set, one chart is configured with
\* columns the dataset has
InitFiltered ==
    /\ data \in TablesOf(AggRows, MaxRows)
    /\ global_config \in GlobalFilterInputs
    /\ chart_filters \in {FilterLists(fs) : fs \in LocalFilterInputs}
    /\ chart_configs \in {<<[c EXCEPT !.layout_height = h]>> : c \in ConfigInputs, h \in HeightInputs}
    /\ chart_count = 1
    /\ persisted = {}
    /\ Showing(data)
    /\ NothingComputed

NextFiltered == UpdateCharts

SpecFiltered == InitFiltered /\ [][NextFiltered]_vars

-----------------------------------------------------------------------------
(* The workspace: the selected dataset, the chart-count store, the charts  *)
(* _render_charts has rendered and what the browser persists for them.     *)

\* charts one page holds
MaxCharts == 2

\* datasets the store holds at most
MaxDatasets == 3

DatasetA ==
    [cols |-> <<"cat", "grp", "val", "qty">>,
     rows |-> << [c \in {"cat", "grp", "val", "qty"} |->
                    CASE c = "cat" -> Str("A") [] c = "grp" -> Str("x")
                      [] c = "val" -> Num(10) [] OTHER -> Num(1)],
                 [c \in {"cat", "grp", "val", "qty"} |->
                    CASE c = "cat" -> Str("A") [] c = "grp" -> Str("y")
                      [] c = "val" -> Num(20) [] OTHER -> Num(2)],
                 [c \in {"cat", "grp", "val", "qty"} |->
                    CASE c = "cat" -> Str("B") [] c = "grp" -> Str("x")
                      [] c = "val" -> Num(5) [] OTHER -> Num(2)] >>]

\* a dataset without the columns grp, val and qty
DatasetB ==
    [cols |-> <<"cat", "amt">>,
     rows |-> << [c \in {"cat", "amt"} |-> IF c = "cat" THEN Str("A") ELSE Num(1)],
                 [c \in {"cat", "amt"} |-> IF c = "cat" THEN Str("B") ELSE Num(2)] >>]

\* a dataset without a numeric column
DatasetC ==
    [cols |-> <<"cat", "grp">>,
     rows |-> << [c \in {"cat", "grp"} |-> IF c = "cat" THEN Str("A") ELSE Str("x")] >>]

Datasets == {DatasetA, DatasetB, DatasetC}

\* pd.api.types.is_numeric_dtype of a column
IsNumericDtype(series) == \A i \in DOMAIN series : series[i].k \in {"num", "na"}

\* numeric_columns of _render_charts
NumericColumnsOf(table) ==
    SelectRows(table.cols,
               [j \in 1..Len(table.cols) |-> IsNumericDtype(Column(table, table.cols[j]))], 1)

\* the options of a chart's dropdowns (build_layout)
Options(prop, table) ==
    CASE prop = "chart_type"  -> {CHART_TYPES[i] : i \in 1..Len(CHART_TYPES)}
      [] prop = "x_axis"      -> {table.cols[j] : j \in 1..Len(table.cols)}
      [] prop = "y_axis"      -> {NumericColumnsOf(table)[j] : j \in 1..Len(NumericColumnsOf(table))}
      [] prop = "aggregation" -> DOMAIN AGGREGATIONS
      [] prop = "layout_height" -> MinHeight..MaxHeight
      [] OTHER                -> {NoDimension} \cup {table.cols[j] : j \in 1..Len(table.cols)}

\* the picks the model's user makes
EditInputs ==
    { <<"aggregation", "Sum">>,
      <<"color_dimension", NoDimension>>, <<"color_dimension", "grp">>,
      <<"y_axis", "qty">> }

\* persistence=True: the browser stores, per widget, <<index, prop, value,
\* original>>: the value the user picked and the value the layout gave before
\* the first pick.  A pick back to the original forgets the entry.
RecordUiEdit(store, index, prop, value, shown) ==
    IF \E e \in store : e[1] = index /\ e[2] = prop
    THEN {e \in store : ~(e[1] = index /\ e[2] = prop)}
         \cup {<<e[1], e[2], value, e[4]>> : e \in {f \in store : f[1] = index /\ f[2] = prop /\ f[4] # value}}
    ELSE store \cup {<<index, prop, value, shown>>}

\* a stored value is applied to a widget rendered anew as long as the value
\* the layout gives equals the stored original
Restorable(store, index, prop, given) ==
    {e \in store : e[1] = index /\ e[2] = prop /\ e[4] = given}

\* the widget values of chart `index` rendered with `default` as values
RenderedConfig(store, index, default) ==
    [prop \in DOMAIN default |->
        IF Restorable(store, index, prop, default[prop]) # {}
        THEN (CHOOSE e \in Restorable(store, index, prop, default[prop]) : TRUE)[3]
        ELSE default[prop]]

\* what the browser still stores after `count` charts were rendered with
\* `default`: an entry whose original no longer matches is dropped
PrunedStore(store, count, default) ==
    {e \in store : e[1] > count \/ e[4] = default[e[2]]}

\* default_config: [error, config]; columns[0] and numeric_columns[0] raise
\* IndexError on an empty list
DefaultConfigResult(columns, numeric_columns) ==
    IF columns = <<>> \/ numeric_columns = <<>>
    THEN [error |-> "IndexError", config |-> None]
    ELSE [error |-> "none", config |-> DefaultConfig(columns, numeric_columns)]

RenderLayouts(count, store, made) ==
    IF made.error # "none"
    THEN [error |-> made.error, shown |-> FALSE, configs |-> <<>>, store |-> store]
    ELSE [error |-> "none", shown |-> TRUE,
          configs |-> [i \in 1..count |-> RenderedConfig(store, i, made.config)],
          store |-> PrunedStore(store, count, made.config)]

\* faulty variant: no check for a dataset without numeric columns
RenderChartsUnguarded(count, table, store) ==
    IF table = NoData
    THEN [error |-> "none", shown |-> FALSE, configs |-> <<>>, store |-> store]
    ELSE RenderLayouts(count, store, DefaultConfigResult(table.cols, NumericColumnsOf(table)))

\* faulty variant: the widgets are rendered without persistence
RenderChartsNoPersistence(count, table, store) ==
    IF table = NoData \/ NumericColumnsOf(table) = <<>>
    THEN [error |-> "none", shown |-> FALSE, configs |-> <<>>, store |-> store]
    ELSE RenderLayouts(count, {}, DefaultConfigResult(table.cols, NumericColumnsOf(table)))

\* _render_charts(count, data_json): a message when there is no dataset or no
\* numeric column, else `count` chart cards built from the default config
RenderCharts(count, table, store) ==
    IF table = NoData \/ NumericColumnsOf(table) = <<>>
    THEN [error |-> "none", shown |-> FALSE, configs |-> <<>>, store |-> store]
    ELSE RenderLayouts(count, store, DefaultConfigResult(table.cols, NumericColumnsOf(table)))

\* the charts container after _render_charts: a failed callback leaves the
\* container as it was
Rendered(r) ==
    /\ chart_configs' = IF r.error = "none" THEN r.configs ELSE chart_configs
    /\ persisted' = r.store

\* the column dropdowns are reset on a new dataset (_update_column_options),
\* and with them the chosen values and the date range
ResetFilter == FilterConfig(None, {}, None, None, None)

WorkspaceFilterInputs == {ResetFilter, FilterConfig("cat", {"A"}, None, None, None)}

\* the page as it is served: no dataset, one chart counted, none rendered
InitWorkspace ==
    /\ data = NoData
    /\ global_config = NoFilterWidgets
    /\ chart_filters = FilterLists(<<>>)
    /\ chart_configs = <<>>
    /\ chart_count = 1
    /\ persisted = {}
    /\ Showing(data)
    /\ NothingComputed

outputs == <<outcome, computed, figures, preview_data, preview_columns>>

\* the user selects another dataset, or none (_sync_selected_dataset and the
\* callbacks the data store triggers)
SelectDataset ==
    /\ phase = "done"
    /\ phase' = "pending"
    /\ \E table \in (Datasets \cup {NoData}) \ {data} :
          /\ data' = table
          /\ datasets' = StoreOf(table)
          /\ selected_dataset' = SelectionOf(table)
          /\ Rendered(RenderCharts(chart_count, table, persisted))
    /\ global_config' = ResetFilter
    /\ UNCHANGED <<chart_filters, chart_count, upload_info, upload, triggered,
                   title_options, outputs>>

\* the user clicks "Add chart" (_add_chart, then _render_charts)
AddChart ==
    /\ phase = "done"
    /\ chart_count < MaxCharts
    /\ phase' = "pending"
    /\ chart_count' = chart_count + 1
    /\ Rendered(RenderCharts(chart_count + 1, data, persisted))
    /\ UNCHANGED <<data, global_config, chart_filters, page, outputs>>

\* the user picks a value in one of a chart's dropdowns
SetWidget ==
    /\ phase = "done"
    /\ phase' = "pending"
    /\ \E index \in 1..Len(chart_configs), edit \in EditInputs :
          /\ edit[2] \in Options(edit[1], data)
          /\ edit[2] # chart_configs[index][edit[1]]
          /\ chart_configs' = [chart_configs EXCEPT ![index][edit[1]] = edit[2]]
          /\ persisted' = RecordUiEdit(persisted, index, edit[1], edit[2],
                                       chart_configs[index][edit[1]])
    /\ UNCHANGED <<data, global_config, chart_filters, chart_count, page, outputs>>

\* the user sets the global filter
SetGlobalFilter ==
    /\ phase = "done"
    /\ data # NoData
    /\ phase' = "pending"
    /\ \E f \in WorkspaceFilterInputs \ {global_config} : global_config' = f
    /\ UNCHANGED <<data, chart_filters, chart_configs, chart_count, persisted, page, outputs>>

NextWorkspace ==
    \/ UpdateCharts
    \/ SelectDataset
    \/ AddChart
    \/ SetWidget
    \/ SetGlobalFilter

SpecWorkspace == InitWorkspace /\ [][NextWorkspace]_vars

-----------------------------------------------------------------------------
(* The title picker: the values "Choose titles" offers for a column.       *)

\* {value for value in values if pd.notna(value)}
NotNaSet(series) == {series[i] : i \in {j \in DOMAIN series : ~IsNA(series[j])}}

\* sorted() of values of one type: ascending by <
RECURSIVE SortedCells(_)
SortedCells(cells) ==
    IF cells = {} THEN <<>>
    ELSE LET least == CHOOSE c \in cells : \A other \in cells \ {c} : CellLess(c, other)
         IN  <<least>> \o SortedCells(cells \ {least})

\* _safe_unique(values): [error, values].  sorted() compares the values
\* themselves: numbers with strings or with timestamps raise TypeError
SafeUnique(series) ==
    IF Cardinality({c.k : c \in NotNaSet(series)}) > 1
    THEN [error |-> "TypeError", values |-> <<>>]
    ELSE [error |-> "none", values |-> SortedCells(NotNaSet(series))]

\* rows the model draws from: strings, numbers, a timestamp and a missing
\* value in the title column
UniqueRows ==
    {Row(c, Str("x"), Str("x"), Ts(0), Num(1)) :
        c \in {Str("A"), Str("B"), Str("10"), Num(2), Num(10), Ts(0), NA}}

\* a dataset is on display, no title column is chosen yet
InitUnique ==
    /\ data \in TablesOf(UniqueRows, MaxRows)
    /\ global_config = NoFilterWidgets
    /\ chart_filters = FilterLists(<<>>)
    /\ chart_configs = <<DefaultConfig(Columns, NumericColumns)>>
    /\ chart_count = 1
    /\ persisted = {}
    /\ Showing(data)
    /\ NothingComputed

\* the user chooses "cat" as title column: title_values = _safe_unique(title_series)
ChooseTitleColumn ==
    /\ phase = "pending"
    /\ phase' = "done"
    /\ global_config' = [global_config EXCEPT !.title_column = "cat"]
    /\ title_options' = SafeUnique(Column(data, "cat"))
    /\ UNCHANGED <<data, chart_filters, chart_configs, chart_count, persisted,
                   datasets, selected_dataset, upload_info, upload, triggered,
                   outcome, computed, figures, preview_data, preview_columns>>

NextUnique == ChooseTitleColumn

SpecUnique == InitUnique /\ [][NextUnique]_vars

-----------------------------------------------------------------------------
(* The time picker: the date range _update_time_range fills in.            *)

\* the timestamps among the coerced values
ParsedTimes(coerced) == {coerced[i].n : i \in {j \in DOMAIN coerced : ~IsNA(coerced[j])}}

\* datetime_bounds(series): the least and the greatest parsed timestamp,
\* both absent when no value parses
DatetimeBounds(series) ==
    IF ParsedTimes(CoerceDatetime(series).values) = {}
    THEN [min_time |-> NA, max_time |-> NA]
    ELSE [min_time |-> Ts(CHOOSE t \in ParsedTimes(CoerceDatetime(series).values) :
                             \A u \in ParsedTimes(CoerceDatetime(series).values) : t <= u),
          max_time |-> Ts(CHOOSE t \in ParsedTimes(CoerceDatetime(series).values) :
                             \A u \in ParsedTimes(CoerceDatetime(series).values) : u <= t)]

\* _update_time_range(time_column, data_json), the bounds of the column
\* already taken: the start and end date of the picker, each a
\* Timestamp.date(), the calendar day "YYYY-MM-DD"
UpdateTimeRange(time_column, table, bounds) ==
    IF table = NoData \/ time_column = None \/ IsNA(bounds.min_time) \/ IsNA(bounds.max_time)
    THEN [start_date |-> None, end_date |-> None]
    ELSE [start_date |-> DateStrings[DateOf(bounds.min_time.n) + 1],
          end_date |-> DateStrings[DateOf(bounds.max_time.n) + 1]]

\* rows the model draws from; in the time column both times of day on the
\* first and on the last day, a date string, a string that is no time, NaT
TimeRows ==
    {Row(Str("A"), Str("x"), Str("x"), t, Num(1)) :
        t \in {Ts(0), Ts(1), Ts(4), Ts(5), Str("2020-01-02"), Str("n/a"), NA}}

\* a dataset is on display, no filter is set, one chart shows the default
InitTimeRange ==
    /\ data \in TablesOf(TimeRows, MaxRows)
    /\ global_config = NoFilterWidgets
    /\ chart_filters = FilterLists(<<>>)
    /\ chart_configs = <<DefaultConfig(Columns, NumericColumns)>>
    /\ chart_count = 1
    /\ persisted = {}
    /\ Showing(data)
    /\ NothingComputed

\* the user chooses "t" as time filter column: _update_time_range fills the
\* date picker, which triggers _update_charts
ChooseTimeColumn ==
    /\ phase = "done"
    /\ global_config.time_column = None
    /\ phase' = "pending"
    /\ \E r \in {UpdateTimeRange("t", data, DatetimeBounds(Column(data, "t")))} :
          global_config' = [global_config EXCEPT !.time_column = "t",
                                                 !.start_date = r.start_date,
                                                 !.end_date = r.end_date]
    /\ UNCHANGED <<data, chart_filters, chart_configs, chart_count, persisted, page,
                   outcome, computed, figures, preview_data, preview_columns>>

NextTimeRange == UpdateCharts \/ ChooseTimeColumn

SpecTimeRange == InitTimeRange /\ [][NextTimeRange]_vars

-----------------------------------------------------------------------------
(* The data workspace: uploads, the datasets store and the selector.       *)

Keys(store) == {store[i].name : i \in 1..Len(store)}

\* position of the last "." of a name, 0 when it has none
LastDot(name) ==
    IF \E i \in 1..Len(name) : name[i] = "."
    THEN CHOOSE i \in 1..Len(name) :
            name[i] = "." /\ \A j \in (i + 1)..Len(name) : name[j] # "."
    ELSE 0

\* name.rsplit(".", 1)
RSplit(name) ==
    IF LastDot(name) = 0 THEN <<name>>
    ELSE <<SubSeq(name, 1, LastDot(name) - 1), SubSeq(name, LastDot(name) + 1, Len(name))>>

\* the decimal digits of a counter, as characters
RECURSIVE DigitChars(_)
DigitChars(n) == IF n < 10 THEN <<Digit[n + 1]>> ELSE Append(DigitChars(n \div 10), Digit[(n % 10) + 1])

\* f"{base[0]}{suffix}.{base[1]}" if len(base) == 2 else f"{base[0]}{suffix}",
\* suffix being f" ({counter})"
Candidate(base, counter) ==
    IF Len(base) = 2
    THEN base[1] \o <<" ", "(">> \o DigitChars(counter) \o <<")", ".">> \o base[2]
    ELSE base[1] \o <<" ", "(">> \o DigitChars(counter) \o <<")">>

\* the while loop of _unique_dataset_name from `counter` on
RECURSIVE FirstFree(_, _, _)
FirstFree(base, store, counter) ==
    IF Candidate(base, counter) \notin Keys(store)
    THEN Candidate(base, counter)
    ELSE FirstFree(base, store, counter + 1)

\* faulty variant: the name is taken as it is
UniqueDatasetNameAsGiven(name, store) == name

\* _unique_dataset_name(name, datasets)
UniqueDatasetName(name, store) ==
    IF name \notin Keys(store) THEN name ELSE FirstFree(RSplit(name), store, 1)

\* datasets[name] = content: a new key goes last, a key there is keeps its place
Put(store, name, content) ==
    IF name \in Keys(store)
    THEN [i \in 1..Len(store) |-> IF store[i].name = name
                                  THEN [name |-> name, content |-> content] ELSE store[i]]
    ELSE Append(store, [name |-> name, content |-> content])

\* datasets.pop(name)
Pop(store, name) == SelectRows(store, [i \in 1..Len(store) |-> store[i].name # name], 1)

\* CsvDataLoader.parse_contents(contents, filename): [raised, dataframe, error]
ParseContents(contents, filename) ==
    CASE contents.kind = "none" ->
            [raised |-> "none", dataframe |-> NoData, error |-> "No file contents provided."]
      [] contents.kind = "no comma" ->
            [raised |-> "none", dataframe |-> NoData, error |-> "Invalid upload payload."]
      [] contents.kind = "undecodable" ->
            [raised |-> "binascii.Error", dataframe |-> NoData, error |-> ""]
      [] contents.kind = "unreadable" ->
            [raised |-> "none", dataframe |-> NoData, error |-> "Unable to read"]
      [] OTHER ->
            [raised |-> "none", dataframe |-> contents.table, error |-> ""]

\* DataFrame.empty: no row or no column
IsEmptyFrame(table) == table.rows = <<>> \/ table.cols = <<>>

StoreResult(raised, store, selected, info) ==
    [raised |-> raised, datasets |-> store, selected |-> selected, info |-> info]

\* the delete branch of _update_datasets
DeleteSelected(store, selected) ==
    IF selected # NoName /\ selected \in Keys(store)
    THEN StoreResult("none", Pop(store, selected),
                     IF Pop(store, selected) = <<>> THEN NoName ELSE Pop(store, selected)[1].name,
                     "")
    ELSE StoreResult("none", store, selected, "")

\* faulty variant: the upload is stored and the selection left as it was
StoreUploadKeepsSelection(payload, filename, store, selected) ==
    IF payload.raised # "none" THEN StoreResult(payload.raised, store, selected, "")
    ELSE IF payload.error # "" THEN StoreResult("none", store, selected, payload.error)
    ELSE IF IsEmptyFrame(payload.dataframe)
    THEN StoreResult("none", store, selected, "The uploaded CSV has no rows.")
    ELSE StoreResult("none",
                     Put(store,
                         UniqueDatasetName(IF filename = NoName THEN UploadedCsv ELSE filename, store),
                         ToJson(payload.dataframe)),
                     selected, "")

\* the upload branch of _update_datasets, the payload parsed
StoreUpload(payload, filename, store, selected) ==
    IF payload.raised # "none" THEN StoreResult(payload.raised, store, selected, "")
    ELSE IF payload.error # "" THEN StoreResult("none", store, selected, payload.error)
    ELSE IF IsEmptyFrame(payload.dataframe)
    THEN StoreResult("none", store, selected, "The uploaded CSV has no rows.")
    ELSE LET dataset_name ==
                 UniqueDatasetName(IF filename = NoName THEN UploadedCsv ELSE filename, store)
         IN  StoreResult("none", Put(store, dataset_name, ToJson(payload.dataframe)),
                         dataset_name, "")

\* _update_datasets: [raised, datasets, selected, info]
UpdateDatasets(trigger, contents, filename, store, selected) ==
    IF trigger = "delete-dataset" THEN DeleteSelected(store, selected)
    ELSE IF contents.kind = "none" THEN StoreResult("none", store, selected, "")
    ELSE StoreUpload(ParseContents(contents, filename), filename, store, selected)

\* _sync_selected_dataset(datasets, selected_name), read as a table
SyncSelectedDataset(store, selected_name) ==
    IF store = <<>> \/ selected_name = NoName \/ selected_name \notin Keys(store)
    THEN NoData
    ELSE ReadJson((CHOOSE e \in {store[i] : i \in 1..Len(store)} : e.name = selected_name).content)

\* the files the model's user drops, [contents, filename]: payloads that
\* fail at each step of parsing (the last a CSV of a header line only), and
\* CSVs with rows under the name "a.c", under "a" and without a name
UploadInputs ==
    {[contents |-> Payload(kind, NoData), filename |-> <<"a", ".", "c">>] :
        kind \in {"none", "no comma", "undecodable", "unreadable"}}
    \cup {[contents |-> Payload("csv", table), filename |-> <<"a", ".", "c">>] :
            table \in {[cols |-> <<"cat", "amt">>, rows |-> <<>>], DatasetB, DatasetC}}
    \cup {[contents |-> Payload("csv", DatasetB), filename |-> name] :
            name \in {<<"a">>, NoName}}

\* what follows a run of _update_datasets that returned r: the data store is
\* synced, the column dropdowns are reset, the charts are rendered anew and
\* _update_charts is due; a run that raised updates nothing
StoreUpdated(r) ==
    IF r.raised # "none"
    THEN UNCHANGED <<datasets, selected_dataset, upload_info, data, global_config,
                     chart_configs, persisted, phase>>
    ELSE /\ datasets' = r.datasets
         /\ selected_dataset' = r.selected
         /\ upload_info' = r.info
         /\ \E table \in {SyncSelectedDataset(r.datasets, r.selected)} :
               /\ data' = table
               /\ Rendered(RenderCharts(chart_count, table, persisted))
         /\ global_config' = ResetFilter
         /\ phase' = "pending"

\* a file is dropped on the upload area
Upload ==
    /\ phase = "done"
    /\ Len(datasets) < MaxDatasets
    /\ triggered' = "upload"
    /\ \E dropped \in UploadInputs :
          /\ upload' = dropped
          /\ StoreUpdated(UpdateDatasets("upload", dropped.contents, dropped.filename,
                                         datasets, selected_dataset))
    /\ UNCHANGED <<chart_filters, chart_count, title_options, outputs>>

\* a click on "Delete dataset"
DeleteDataset ==
    /\ phase = "done"
    /\ triggered' = "delete-dataset"
    /\ StoreUpdated(UpdateDatasets("delete-dataset", upload.contents, upload.filename,
                                   datasets, selected_dataset))
    /\ UNCHANGED <<upload, chart_filters, chart_count, title_options, outputs>>

\* the user picks another stored dataset in the selector
PickDataset ==
    /\ phase = "done"
    /\ triggered' = "dataset-selector"
    /\ \E name \in Keys(datasets) \ {selected_dataset} :
          StoreUpdated(StoreResult("none", datasets, name, upload_info))
    /\ UNCHANGED <<upload, chart_filters, chart_count, title_options, outputs>>

NextStore == UpdateCharts \/ Upload \/ DeleteDataset \/ PickDataset

SpecStore == InitWorkspace /\ [][NextStore]_vars

-----------------------------------------------------------------------------
(* Properties of the filter, checked under SpecApply. *)

\* The rules as the specification words them, on the widget values.
Chosen(w) == w.title_column # None /\ w.title_values \notin {{}, NoSelection}
Ranged(w) == w.time_column # None /\ w.start_date # None /\ w.end_date # None

\* the text of the category cells of the model
TextOf(c) == IF c.k = "str" THEN c.s ELSE IF c = Num(1) THEN "1" ELSE None

\* the moment each time string of the model names, in ticks
Moments ==
    [s \in {"2020-01-01", "2020-01-01 12:00:00", "2020-01-02"} |->
        CASE s = "2020-01-01" -> 0 [] s = "2020-01-01 12:00:00" -> 1 [] OTHER -> 2]

\* the moment of a time cell, -1 when it has none
MomentOf(c) ==
    IF c.k = "ts" THEN c.n
    ELSE IF c.k = "str" /\ c.s \in DOMAIN Moments THEN Moments[c.s] ELSE -1

TitleKeeps(w, row) == ~Chosen(w) \/ TextOf(row[w.title_column]) \in w.title_values

TimeKeeps(w, row) ==
    \/ ~Ranged(w)
    \/ /\ MomentOf(row[w.time_column]) >= 0
       /\ Moments[w.start_date] <= MomentOf(row[w.time_column])
       /\ MomentOf(row[w.time_column]) <= Moments[w.end_date]

Keeps(w, row) == TitleKeeps(w, row) /\ TimeKeeps(w, row)

\* the rows of table that w keeps, in the table's order
Kept(table, w) == SelectRows(table.rows, [i \in 1..Len(table.rows) |-> Keeps(w, table.rows[i])], 1)

\* the filter widgets of chart i; a chart without any has no filter
LocalWidgets(i) ==
    IF i <= Len(chart_filters.title_columns)
    THEN FilterConfig(chart_filters.title_columns[i], chart_filters.title_values[i],
                      chart_filters.time_columns[i], chart_filters.start_dates[i],
                      chart_filters.end_dates[i])
    ELSE NoFilterWidgets

Charts == 1..Len(chart_configs)

Computed == phase = "done" /\ outcome = "ok"

C2_ApplyIdempotent ==
    Computed =>
        /\ Apply(filtered, GlobalFilterConfig(global_config)).result = filtered
        /\ \A i \in Charts :
              /\ Apply(chart_filtered[i], PerChartFilterConfig(chart_filters, i)).result
                    = chart_filtered[i]
              /\ LocalWidgets(i) = global_config => chart_filtered[i] = filtered

\* C2 witness: chart 1 repeats the global filter, both rules active, and the
\* filter dropped a row the first time.
C2_Witness ==
    /\ Computed
    /\ Chosen(global_config) /\ Ranged(global_config)
    /\ LocalWidgets(1) = global_config
    /\ Len(filtered.rows) = 1
    /\ Len(data.rows) = 2
    /\ chart_filtered[1] = filtered

C4_TimeFilterInclusive ==
    /\ phase = "done" => outcome = "ok"
    /\ (Computed /\ Ranged(global_config) /\ ~Chosen(global_config)) =>
          /\ filtered.cols = data.cols
          /\ filtered.rows = Kept(data, global_config)
          /\ \A j \in 1..Len(filtered.rows) : MomentOf(filtered.rows[j]["t"]) >= 0

\* C4 witness: the range is [2020-01-01, 2020-01-02]; a row exactly on the
\* end of the range is kept and a row whose time does not parse is dropped.
C4_Witness ==
    /\ Computed
    /\ ~Chosen(global_config)
    /\ global_config.time_column = "t"
    /\ global_config.start_date = "2020-01-01" /\ global_config.end_date = "2020-01-02"
    /\ Len(data.rows) = 2
    /\ data.rows[1]["t"] = Str("n/a") /\ data.rows[2]["t"] = Str("2020-01-02")
    /\ filtered.rows = <<data.rows[2]>>

\* the rows of a that also occur in b, in a's order
RowsOf(table) == {table.rows[j] : j \in 1..Len(table.rows)}
Intersection(a, b) ==
    SelectRows(a.rows, [j \in 1..Len(a.rows) |-> a.rows[j] \in RowsOf(b)], 1)

\* the dataset filtered by chart i's own filter alone
LocalAlone(i) == Apply(data, PerChartFilterConfig(chart_filters, i)).result

KeptByBoth(i) ==
    SelectRows(data.rows,
               [j \in 1..Len(data.rows) |->
                   Keeps(global_config, data.rows[j]) /\ Keeps(LocalWidgets(i), data.rows[j])],
               1)

\* C5: a chart's table holds exactly the rows of the dataset that pass every
\* active rule of the global and of the chart's filter; it is the
\* intersection of the two filters' results, and applying the chart's
\* filter first and the global one second gives the same table.
C5_FiltersComposeByConjunction ==
    Computed =>
        \A i \in Charts :
            /\ chart_filtered[i].rows = KeptByBoth(i)
            /\ chart_filtered[i].rows = Intersection(filtered, LocalAlone(i))
            /\ Apply(LocalAlone(i), GlobalFilterConfig(global_config)).result
                  = chart_filtered[i]

\* C5 witness: the global filter is categorical, chart 1's temporal; each
\* alone keeps one of the two rows, a different one, so together none.
C5_Witness ==
    /\ Computed
    /\ Chosen(global_config) /\ ~Ranged(global_config)
    /\ Ranged(LocalWidgets(1)) /\ ~Chosen(LocalWidgets(1))
    /\ Len(data.rows) = 2
    /\ Len(filtered.rows) = 1
    /\ Len(LocalAlone(1).rows) = 1
    /\ chart_filtered[1].rows = <<>>
    /\ chart_filtered[2] = filtered

\* C6: no table is changed by being filtered or charted: after the
\* recomputation the dataset, the globally filtered table and each chart's
\* table hold the rows, cells and cell types they held when first computed.
C6_InputsNotMutated ==
    Computed =>
        /\ data_after = data
        /\ filtered_after = filtered
        /\ \A i \in Charts : chart_filtered_after[i] = chart_filtered[i]

\* C6 witness: both the global and chart 1's filter coerce a time column
\* that holds unparsed strings, and those strings are still in place.
C6_Witness ==
    /\ Computed
    /\ Ranged(global_config) /\ Ranged(LocalWidgets(1))
    /\ Len(data.rows) = 2
    /\ data.rows[1]["t"] = Str("n/a")
    /\ data.rows[2]["t"] = Str("2020-01-02")
    /\ filtered.rows = <<data.rows[2]>>
    /\ chart_filtered[1] = filtered
    /\ data_after.rows[1]["t"] = Str("n/a")
    /\ filtered_after.rows[1]["t"] = Str("2020-01-02")

-----------------------------------------------------------------------------
(* Properties of the aggregator, checked under SpecAggregate. *)

Aggregated == Computed /\ chart_configs[1].aggregation # RawRows

\* The key list as the specification words it: the six settings in their
\* fixed order, each kept only where it applies and is set.
ExpectedKeys(c) ==
    SelectRows(
        <<c.x_axis, c.color_dimension, c.line_symbol, c.line_dash, c.bar_pattern, c.bar_facet>>,
        <<TRUE,
          c.color_dimension # NoDimension,
          c.chart_type = "Line" /\ c.line_symbol # NoDimension,
          c.chart_type = "Line" /\ c.line_dash # NoDimension,
          c.chart_type = "Bar" /\ c.bar_pattern # NoDimension,
          c.chart_type = "Bar" /\ c.bar_facet # NoDimension>>,
        1)

\* key tuples of the table handed to the aggregator, and of its output
InputKeys ==
    {KeyOf(chart_filtered[1].rows[i], ExpectedKeys(chart_configs[1])) :
        i \in 1..Len(chart_filtered[1].rows)}
OutputKey(g) == KeyOf(chart_data[1].rows[g], ExpectedKeys(chart_configs[1]))

HasMissing(key) == \E j \in 1..Len(key) : IsNA(key[j])

\* C7: with an aggregation chosen, the output has exactly one row for each
\* key tuple of the input, and a tuple with a missing value in a key column
\* has its row like any other.
C7_OneRowPerKeyMissingKept ==
    Aggregated =>
        /\ {OutputKey(g) : g \in 1..Len(chart_data[1].rows)} = InputKeys
        /\ Len(chart_data[1].rows) = Cardinality(InputKeys)

\* C7 witness: two of three input rows share a key, the third has a missing
\* key; the output has two rows, one of them for the missing key.
C7_Witness ==
    /\ Aggregated
    /\ Len(chart_filtered[1].rows) = 3
    /\ Len(chart_data[1].rows) = 2
    /\ \E key \in InputKeys : HasMissing(key)
    /\ \E g \in 1..Len(chart_data[1].rows) : HasMissing(OutputKey(g))

\* C8: the grouping keys are x_axis, then color_dimension if set, then for a
\* Line chart only line symbol and line dash if set, then for a Bar chart
\* only bar pattern and bar facet if set; the aggregated table has these
\* columns, in this order, followed by y_axis.
C8_GroupingKeyOrder ==
    Aggregated =>
        /\ Groupers(ToConfig(chart_configs[1])) = ExpectedKeys(chart_configs[1])
        /\ chart_data[1].cols = ExpectedKeys(chart_configs[1]) \o <<chart_configs[1].y_axis>>

\* C8 witness: a Pie chart with symbol, dash, pattern and facet all set is
\* grouped by x_axis and color alone.
C8_Witness ==
    /\ Aggregated
    /\ chart_configs[1].chart_type = "Pie"
    /\ chart_configs[1].color_dimension = "grp"
    /\ chart_configs[1].line_symbol = "tag" /\ chart_configs[1].line_dash = "t"
    /\ chart_configs[1].bar_pattern = "t" /\ chart_configs[1].bar_facet = "tag"
    /\ chart_data[1].cols = <<"cat", "grp", "val">>
    /\ Len(chart_data[1].rows) = 2

\* the input rows of output row g, and those of them with a y value
Members(g) ==
    {i \in 1..Len(chart_filtered[1].rows) :
        KeyOf(chart_filtered[1].rows[i], ExpectedKeys(chart_configs[1])) = OutputKey(g)}
Valued(g) == {i \in Members(g) : chart_filtered[1].rows[i][chart_configs[1].y_axis].k = "num"}

ValueAt(i) == chart_filtered[1].rows[i][chart_configs[1].y_axis].n

RECURSIVE Total(_)
Total(S) == IF S = {} THEN 0
            ELSE ValueAt(CHOOSE i \in S : TRUE) + Total(S \ {CHOOSE i \in S : TRUE})

\* v is the reduction of the y values of the input rows in S
IsReduction(aggregation, v, S) ==
    CASE aggregation = "Sum"   -> v = Num(Total(S))
      [] aggregation = "Count" -> v = Num(Cardinality(S))
      [] aggregation = "Mean"  ->
            IF S = {} THEN v = NA
            ELSE v.k = "num" /\ v.n * Cardinality(S) = Total(S) * v.d
      [] aggregation = "Min"   ->
            IF S = {} THEN v = NA
            ELSE /\ \E i \in S : v = Num(ValueAt(i))
                 /\ \A i \in S : v.n <= ValueAt(i)
      [] aggregation = "Max"   ->
            IF S = {} THEN v = NA
            ELSE /\ \E i \in S : v = Num(ValueAt(i))
                 /\ \A i \in S : v.n >= ValueAt(i)
      [] OTHER -> FALSE

\* C9: each output row's y value is the sum (count, mean, minimum, maximum)
\* of the y values of exactly the input rows that have the row's key; a row
\* whose y is missing contributes no value.
C9_ReductionPerGroup ==
    Aggregated =>
        \A g \in 1..Len(chart_data[1].rows) :
            IsReduction(chart_configs[1].aggregation,
                        chart_data[1].rows[g][chart_configs[1].y_axis],
                        Valued(g))

\* C9 witness: rows (A,10), (A,20), (B,5) grouped by cat with Sum give
\* (A,30), (B,5).
C9_Witness ==
    /\ Aggregated
    /\ chart_configs[1].aggregation = "Sum"
    /\ chart_configs[1].color_dimension = NoDimension
    /\ chart_configs[1].chart_type = "Bar"
    /\ chart_configs[1].bar_pattern = NoDimension /\ chart_configs[1].bar_facet = NoDimension
    /\ Len(chart_filtered[1].rows) = 3
    /\ \A i \in 1..3 :
          <<chart_filtered[1].rows[i]["cat"], chart_filtered[1].rows[i]["val"]>>
              = <<<<Str("A"), Num(10)>>, <<Str("A"), Num(20)>>, <<Str("B"), Num(5)>>>>[i]
    /\ chart_data[1].rows =
          << [c \in {"cat", "val"} |-> IF c = "cat" THEN Str("A") ELSE Num(30)],
             [c \in {"cat", "val"} |-> IF c = "cat" THEN Str("B") ELSE Num(5)] >>

\* Ascending order of key cells as the specification means it: strings in
\* lexicographic order, times in time order, a missing key after all
\* others.
Below(a, b) ==
    /\ ~IsNA(a)
    /\ \/ IsNA(b)
       \/ a.k = "str" /\ b.k = "str" /\ StrRank(a.s) < StrRank(b.s)
       \/ a.k = "ts" /\ b.k = "ts" /\ a.n < b.n

RECURSIVE Precedes(_, _)
Precedes(a, b) ==
    /\ a # <<>>
    /\ \/ Below(Head(a), Head(b))
       \/ Head(a) = Head(b) /\ Precedes(Tail(a), Tail(b))

\* the table with rows i and j exchanged
Exchanged(table, i, j) ==
    [cols |-> table.cols,
     rows |-> [r \in 1..Len(table.rows) |->
                 table.rows[IF r = i THEN j ELSE IF r = j THEN i ELSE r]]]

\* C10: the output rows are in ascending order of their key tuples, compared
\* key by key in key-list order, and the output does not depend on the order
\* of the input rows: exchanging any two of them leaves it as it is (every
\* reordering is a chain of exchanges, and every table is checked).
C10_OutputOrderedByKey ==
    Aggregated =>
        /\ \A g, h \in 1..Len(chart_data[1].rows) :
              g < h => Precedes(OutputKey(g), OutputKey(h))
        /\ \A i, j \in 1..Len(chart_filtered[1].rows) :
              i < j => BuildChartData(Exchanged(chart_filtered[1], i, j),
                                      ToConfig(chart_configs[1])).result = chart_data[1]

\* C10 witness: the input holds its keys in the order missing, B, A and the
\* output holds them in the order A, B, missing.
C10_Witness ==
    /\ Aggregated
    /\ chart_configs[1].color_dimension = NoDimension
    /\ chart_configs[1].chart_type = "Pie"
    /\ Len(chart_filtered[1].rows) = 3
    /\ [i \in 1..3 |-> chart_filtered[1].rows[i]["cat"]] = <<NA, Str("B"), Str("A")>>
    /\ [g \in 1..Len(chart_data[1].rows) |-> chart_data[1].rows[g]["cat"]]
          = <<Str("A"), Str("B"), NA>>

-----------------------------------------------------------------------------
(* Properties of build_chart_data on raw widget values, checked under      *)
(* SpecBuild.                                                              *)

\* C11: with aggregation "None (raw rows)" the aggregator returns its input:
\* the same columns and the same rows in the same order, ungrouped, whatever
\* the chart type and the dimension settings are; the input is left as it was.
C11_RawRowsIsCopy ==
    (phase = "done" /\ chart_configs[1].aggregation = RawRows) =>
        /\ outcome = "ok"
        /\ chart_data = chart_filtered
        /\ chart_filtered_after = chart_filtered

\* C11 witness: a Bar chart with color and pattern set and two rows of one
\* key comes back with both rows.
C11_Witness ==
    /\ phase = "done"
    /\ chart_configs[1].aggregation = RawRows
    /\ chart_configs[1].chart_type = "Bar"
    /\ chart_configs[1].color_dimension = "grp"
    /\ chart_configs[1].bar_pattern = "t"
    /\ Len(chart_filtered[1].rows) = 2
    /\ chart_filtered[1].rows[1] = chart_filtered[1].rows[2]
    /\ Len(chart_data[1].rows) = 2

\* a config the aggregator is to refuse, in the specification's words
Recognized == {RawRows, "Count", "Sum", "Mean", "Min", "Max"}
ColumnAbsent(table, c) ==
    \/ ~HasColumn(table, c.y_axis)
    \/ \E j \in 1..Len(ExpectedKeys(c)) : ~HasColumn(table, ExpectedKeys(c)[j])

\* C12: the aggregator fails and returns no table whenever y_axis or a
\* grouping key is not a column of the table or the aggregation is not one
\* of the six, also when the aggregation is "None (raw rows)".
C12_InvalidConfigFails ==
    (phase = "done"
        /\ (chart_configs[1].aggregation \notin Recognized
               \/ ColumnAbsent(chart_filtered[1], chart_configs[1])))
        => (outcome # "ok" /\ chart_data = <<>>)

-----------------------------------------------------------------------------
(* Properties of empty results, checked under SpecFiltered.                *)

\* C19: with columns that exist the recomputation never fails, and a chart
\* whose filters leave no row gets an empty aggregated table and the
\* placeholder figure: no axes, the label "No data after filtering", no
\* rows, the height of the chart's config; the preview is then empty too.
C19_EmptyResultIsPlaceholder ==
    /\ phase = "done" => outcome = "ok"
    /\ Computed =>
          /\ filtered.rows = <<>> => preview_data = <<>>
          /\ \A i \in Charts :
                chart_filtered[i].rows = <<>> =>
                    /\ chart_data[i].rows = <<>>
                    /\ figures[i].kind = "placeholder"
                    /\ figures[i].axes_visible = FALSE
                    /\ figures[i].title = "No data after filtering"
                    /\ figures[i].rows = <<>>
                    /\ figures[i].height = chart_configs[i].layout_height

\* C19 witness: the global filter keeps one of two rows, the chart's filter
\* drops it; a Heatmap of means, 320 high, shows the placeholder.
C19_Witness ==
    /\ Computed
    /\ Len(data.rows) = 2
    /\ Len(filtered.rows) = 1
    /\ chart_filtered[1].rows = <<>>
    /\ chart_configs[1].chart_type = "Heatmap"
    /\ chart_configs[1].aggregation = "Mean"
    /\ chart_configs[1].layout_height = MinHeight
    /\ chart_data[1].cols = <<"cat", "val">>
    /\ figures[1].kind = "placeholder"
    /\ figures[1].height = MinHeight

-----------------------------------------------------------------------------
(* Properties of the workspace, checked under SpecWorkspace.               *)

ColumnNames(table) == {table.cols[j] : j \in 1..Len(table.cols)}

\* the columns of table that hold numbers
NumericNames(table) ==
    {c \in ColumnNames(table) :
        \A i \in 1..Len(table.rows) : table.rows[i][c].k \in {"num", "na"}}

\* a config valid against a table, as the specification words it
ValidConfig(c, table) ==
    /\ c.chart_type \in {"Line", "Bar", "Pie", "Heatmap"}
    /\ c.x_axis \in ColumnNames(table)
    /\ c.y_axis \in NumericNames(table)
    /\ c.aggregation \in Recognized
    /\ \A d \in {c.color_dimension, c.line_symbol, c.line_dash, c.bar_pattern, c.bar_facet} :
          d = NoDimension \/ d \in ColumnNames(table)
    /\ c.layout_height \in 320..800

\* the default config of a table, as the specification words it
SpecDefault(table) ==
    [chart_type |-> "Line", x_axis |-> table.cols[1],
     y_axis |-> table.cols[CHOOSE j \in 1..Len(table.cols) :
                    /\ table.cols[j] \in NumericNames(table)
                    /\ \A k \in 1..(j - 1) : table.cols[k] \notin NumericNames(table)],
     aggregation |-> RawRows, color_dimension |-> NoDimension,
     line_symbol |-> NoDimension, line_dash |-> NoDimension,
     bar_pattern |-> NoDimension, bar_facet |-> NoDimension, layout_height |-> 480]

\* a recomputation has run on a dataset
Settled == phase = "done" /\ data # NoData

\* what the recomputation owes chart i: the aggregate of the dataset filtered
\* globally and then by the chart's own filter, and its figure
Owed(i) ==
    BuildChartData(
        Apply(Apply(data, GlobalFilterConfig(global_config)).result,
              PerChartFilterConfig(chart_filters, i)).result,
        ToConfig(chart_configs[i]))

\* C13: a config error stays with its chart: after a recomputation the
\* preview shows the globally filtered dataset, there is one figure per
\* chart, and every chart whose own config is valid shows its aggregated
\* table and figure, whatever the configs of the other charts are.
C13_ErrorConfinedToChart ==
    Settled =>
        /\ preview_columns = data.cols
        /\ preview_data = FirstRows(Kept(data, global_config), 50)
        /\ Len(figures) = Len(chart_configs)
        /\ Len(chart_data) = Len(chart_configs)
        /\ \A i \in Charts :
              ValidConfig(chart_configs[i], data) =>
                  /\ chart_data[i] = Owed(i).result
                  /\ figures[i] = BuildFigure(Owed(i).result, ToConfig(chart_configs[i]))

\* C14: an update of a chart's config that would leave the chart with a
\* config invalid against the dataset is refused: the chart keeps the config
\* it had (so does every other chart, and the global filter).
C14_InvalidUpdateRefused ==
    [][(/\ data' = data
        /\ chart_count' = chart_count
        /\ chart_configs' # chart_configs
        /\ \E i \in Charts : /\ chart_configs'[i] # chart_configs[i]
                             /\ ~ValidConfig(chart_configs'[i], data))
          => FALSE]_vars

\* C15: every config a recomputation has handed to the aggregator and the
\* figure builder is valid against the dataset.
C15_ConfigsUsedAreValid ==
    Settled => \A i \in Charts : ValidConfig(chart_configs[i], data)

\* a dataset the charts can be drawn of: it has a numeric column
Chartable(table) == table # NoData /\ NumericNames(table) # {}

\* C16: a click on "Add chart" adds exactly one chart: the dataset and the
\* filters stay, the charts there were keep their positions and configs, the
\* new chart takes a position no chart had so far and holds the default
\* config of the dataset.  While no chart can be drawn, none is.
C16_AddChartAppendsDefault ==
    [][chart_count' = chart_count + 1 =>
          /\ data' = data
          /\ global_config' = global_config
          /\ chart_filters' = chart_filters
          /\ Len(chart_configs) <= chart_count
          /\ IF Chartable(data)
             THEN /\ Len(chart_configs) = chart_count
                  /\ Len(chart_configs') = chart_count + 1
                  /\ \A i \in 1..chart_count : chart_configs'[i] = chart_configs[i]
                  /\ chart_configs'[chart_count + 1] = SpecDefault(data)
             ELSE chart_configs' = <<>>]_vars

\* "Add chart" has just added a second chart to one the user had edited: the
\* figures on display are still those of the one chart
C16_Witness ==
    /\ phase = "pending"
    /\ data = DatasetA
    /\ preview_columns = DatasetA.cols
    /\ chart_count = 2
    /\ Len(figures) = 1
    /\ Len(chart_configs) = 2
    /\ chart_configs[1].color_dimension = "grp"
    /\ chart_configs[1].aggregation = "Sum"
    /\ chart_configs[2] = SpecDefault(DatasetA)

\* the step that removes the chart added last and nothing else
RemoveLastChart ==
    /\ NextWorkspace
    /\ chart_count' = chart_count - 1
    /\ data' = data
    /\ chart_configs' = SubSeq(chart_configs, 1, Len(chart_configs) - 1)

\* C17: a chart that was added can be removed again, and removing it leaves
\* the charts there were before, with their configs.
C17_AddedChartIsRemovable ==
    (phase = "done" /\ chart_count > 1) => ENABLED RemoveLastChart

\* C18: once a recomputation has run, the display is that of the current
\* inputs: one aggregated table and one figure per chart, each the aggregate
\* of the dataset filtered globally and by the chart's own filter under the
\* chart's config, and the preview that of the globally filtered dataset.
C18_DisplayMatchesInputs ==
    Settled =>
        /\ Len(chart_data) = Len(chart_configs)
        /\ Len(figures) = Len(chart_configs)
        /\ preview_data = FirstRows(Kept(data, global_config), 50)
        /\ \A i \in Charts :
              Owed(i).error = "none" => chart_data[i] = Owed(i).result

-----------------------------------------------------------------------------
(* Properties of the title picker, checked under SpecUnique.               *)

\* the strings of the non-missing values of the title column
TitleStrings == {StrOf(c) : c \in NotNaSet(Column(data, "cat"))}

\* C21: the values offered for a column are its distinct non-missing values
\* as strings: each string once, none for a missing value, in ascending
\* order of the strings, whatever the types of the column's values.
C21_UniqueValuesSortedStrings ==
    (phase = "done" /\ global_config.title_column = "cat") =>
        /\ title_options.error = "none"
        /\ \A j \in 1..Len(title_options.values) : title_options.values[j].k = "str"
        /\ {title_options.values[j].s : j \in 1..Len(title_options.values)} = TitleStrings
        /\ Len(title_options.values) = Cardinality(TitleStrings)
        /\ \A j \in 1..(Len(title_options.values) - 1) :
              StrRank(title_options.values[j].s) < StrRank(title_options.values[j + 1].s)

-----------------------------------------------------------------------------
(* Properties of the time picker, checked under SpecTimeRange.             *)

\* C22: with the start and end date the picker is given when a time column
\* is chosen, the filter keeps every row whose time parses, the rows of the
\* last day after midnight included.
C22_DefaultRangeKeepsParsedRows ==
    (phase = "done" /\ global_config.time_column = "t") =>
        /\ outcome = "ok"
        /\ \A i \in 1..Len(data.rows) :
              ~IsNA(CoerceCell(data.rows[i]["t"])) =>
                  \E j \in 1..Len(filtered.rows) : filtered.rows[j] = data.rows[i]

-----------------------------------------------------------------------------
(* Properties of the data workspace, checked under SpecStore.              *)

\* the selector shows no dataset or a stored one
SelectionInStore == selected_dataset = NoName \/ selected_dataset \in Keys(datasets)

\* the upload at hand is a CSV that reads and has rows
GoodUpload(u) == u.contents.kind = "csv" /\ u.contents.table.rows # <<>>

\* C23: the selected dataset is none or a key of the store, at every moment.
\* A deletion removes the selected dataset and selects the first of those
\* remaining, or none when none remains; an upload that succeeds selects the
\* dataset it stored; an upload that fails leaves store and selection as
\* they were.
C23_SelectionFollowsStore ==
    /\ SelectionInStore
    /\ [][/\ SelectionInStore'
          /\ (phase = "done" /\ triggered' = "delete-dataset") =>
                IF selected_dataset = NoName
                THEN datasets' = datasets /\ selected_dataset' = selected_dataset
                ELSE /\ Keys(datasets') = Keys(datasets) \ {selected_dataset}
                     /\ Len(datasets') = Len(datasets) - 1
                     /\ selected_dataset' =
                            IF datasets' = <<>> THEN NoName ELSE datasets'[1].name
                     /\ \A i \in 1..Len(datasets) :
                            datasets[i].name # selected_dataset =>
                                \E j \in 1..Len(datasets') : datasets'[j] = datasets[i]
          /\ (phase = "done" /\ triggered' = "upload") =>
                IF GoodUpload(upload')
                THEN /\ Len(datasets') = Len(datasets) + 1
                     /\ datasets'[Len(datasets')].content = ToJson(upload'.contents.table)
                     /\ selected_dataset' = datasets'[Len(datasets')].name
                ELSE datasets' = datasets /\ selected_dataset' = selected_dataset
         ]_vars

\* "a (1).c" was selected and deleted: "a.c", the first of the two datasets
\* remaining, is selected
C23_Witness ==
    /\ triggered = "delete-dataset"
    /\ phase = "pending"
    /\ Len(datasets) = 2
    /\ datasets[1].name = <<"a", ".", "c">>
    /\ datasets[2].name = <<"a", " ", "(", "2", ")", ".", "c">>
    /\ selected_dataset = <<"a", ".", "c">>

\* the name a file is uploaded under
AskedName(u) == IF u.filename = NoName THEN UploadedCsv ELSE u.filename

\* C24: an upload overwrites nothing: the dataset is stored under a name no
\* stored dataset has, the file's name when it is free and else that name
\* with " (k)" before the extension for the least k >= 1 that is free; the
\* store grows by exactly this entry and the entries there were stay as they
\* are.
C24_UploadNeverOverwrites ==
    [][(phase = "done" /\ triggered' = "upload" /\ GoodUpload(upload')) =>
          /\ Len(datasets') = Len(datasets) + 1
          /\ SubSeq(datasets', 1, Len(datasets)) = datasets
          /\ datasets'[Len(datasets')].name \notin Keys(datasets)
          /\ IF AskedName(upload') \notin Keys(datasets)
             THEN datasets'[Len(datasets')].name = AskedName(upload')
             ELSE \E k \in 1..(Len(datasets) + 1) :
                     /\ datasets'[Len(datasets')].name = Candidate(RSplit(AskedName(upload')), k)
                     /\ \A j \in 1..(k - 1) :
                           Candidate(RSplit(AskedName(upload')), j) \in Keys(datasets)
       ]_vars

\* "a.c" was uploaded while "a.c" and "a (1).c" were stored: it is stored as
\* "a (2).c"
C24_Witness ==
    /\ triggered = "upload"
    /\ phase = "pending"
    /\ upload.filename = <<"a", ".", "c">>
    /\ GoodUpload(upload)
    /\ Len(datasets) = 3
    /\ datasets[1].name = <<"a", ".", "c">>
    /\ datasets[2].name = <<"a", " ", "(", "1", ")", ".", "c">>
    /\ datasets[3].name = <<"a", " ", "(", "2", ")", ".", "c">>
    /\ datasets[1].content # datasets[3].content
    /\ selected_dataset = datasets[3].name

====
